---- MODULE Spec2Model ----
(***************************************************************************)
(* Model of the banking service in src/main.py: the accounts table, the    *)
(* transactions table and the HTTP handlers that read and write them.      *)
(*                                                                         *)
(* Every handler opens its own SQLAlchemy session.  A query is one SELECT  *)
(* against the database; the attribute assignments that follow touch only  *)
(* the objects loaded into the session; db.commit() flushes the changed    *)
(* rows with UPDATE ... WHERE id = ? and commits them in one database      *)
(* transaction; db.refresh() is one more SELECT.  No handler takes a lock. *)
(* The handlers are plain `def` functions, which FastAPI runs on a thread  *)
(* pool, so the database accesses of two calls can interleave.             *)
(*                                                                         *)
(* Amounts are floats in the source; the model uses integers, which the    *)
(* float arithmetic of the source represents exactly.                      *)
(***************************************************************************)
EXTENDS Integers, Sequences, FiniteSets, TLC

VARIABLES
    accounts,      \* table accounts: id -> row, the domain is the ids stored
    transactions,  \* table transactions: sequence of rows, the id is the index
    calls,         \* per worker thread: the handler call it is running
    resp,          \* the response of the call that returned last
    expected       \* history: id -> balance + accepted deposits - withdraws

vars == <<accounts, transactions, calls, resp, expected>>

----------------------------------------------------------------------------
(* Bounds of the model *)

MaxId == 2
MaxBalance == 10
MaxDebt == 5
NumThreads == 2
MaxCalls == 1

Ids == 1..MaxId
Threads == 1..NumThreads
Owners == {"alice", "bob"}
Amounts == {-5, 0, 5}
Balances == {b \in (0 - MaxDebt)..MaxBalance : b % 5 = 0}

InRange(b) == b >= 0 - MaxDebt /\ b <= MaxBalance

----------------------------------------------------------------------------
(* The tables *)

\* AccountDB: deleted_at is FALSE for NULL and TRUE for a timestamp.
AccountDB(owner, balance, deleted_at) ==
    [owner |-> owner, balance |-> balance, deleted_at |-> deleted_at]

\* Found with the filter on deleted_at left out.
Found_ignoring_deleted_at(accts, account_id) == account_id \in DOMAIN accts

\* db.query(AccountDB).filter(AccountDB.id == account_id,
\*                            AccountDB.deleted_at.is_(None)).first()
\* is not None.
Found(accts, account_id) ==
    /\ account_id \in DOMAIN accts
    /\ ~accts[account_id].deleted_at

\* The integer primary key of a new row: one more than the largest id stored.
NextId(accts) ==
    IF DOMAIN accts = {} THEN 1
    ELSE (CHOOSE m \in DOMAIN accts : \A i \in DOMAIN accts : i <= m) + 1

\* db.delete(row); db.commit(): the row is physically deleted.
DeleteRow(accts, account_id) ==
    [i \in DOMAIN accts \ {account_id} |-> accts[i]]

\* db.add(row); db.commit()
InsertRow(accts, row) ==
    [i \in DOMAIN accts \cup {NextId(accts)} |->
        IF i \in DOMAIN accts THEN accts[i] ELSE row]

\* get_accounts: the ids of the rows the list query returns.
get_accounts(accts) == {i \in DOMAIN accts : ~accts[i].deleted_at}

RECURSIVE SumOver(_, _)
SumOver(f, S) ==
    IF S = {} THEN 0
    ELSE LET i == CHOOSE j \in S : TRUE
         IN f[i] + SumOver(f, S \ {i})

\* The sum of the balances of all stored accounts.
TotalBalance(accts) ==
    SumOver([i \in DOMAIN accts |-> accts[i].balance], DOMAIN accts)

----------------------------------------------------------------------------
(* Responses.  raised is the status code of the HTTPException the handler  *)
(* body raises (0 when it raises none);                                       *)
(* every handler wraps its body in `except Exception`, which also catches  *)
(* the HTTPException and raises HTTPException(500) in its place.           *)

\* A worker thread with no call in progress; n counts the calls it has run.
NoCall(n) ==
    [pc |-> "idle", op |-> "none", id |-> 0, target |-> 0, amount |-> 0,
     found |-> FALSE, src |-> 0, tgt |-> 0, n |-> n]

Response(op, id, target, amount, raised) ==
    [op |-> op, id |-> id, target |-> target, amount |-> amount,
     raised |-> raised, status |-> IF raised = 0 THEN 200 ELSE 500]

NotFound == 404
InsufficientFunds == 400
ValidationError == 422

Init ==
    /\ accounts = <<>>
    /\ transactions = <<>>
    /\ calls = [t \in Threads |-> NoCall(0)]
    /\ resp = Response("none", 0, 0, 0, 0)
    /\ expected = [i \in Ids |-> 0]

----------------------------------------------------------------------------
(* The handlers, each run from its query to its return with no other call  *)
(* in between.                                                             *)

create_account(owner, balance, deleted_at) ==
    /\ NextId(accounts) <= MaxId
    /\ accounts' = InsertRow(accounts, AccountDB(owner, balance, deleted_at))
    /\ expected' = [expected EXCEPT ![NextId(accounts)] = balance]
    /\ resp' = Response("create", NextId(accounts), 0, balance, 0)
    /\ UNCHANGED <<transactions, calls>>

get_accounts_call ==
    /\ resp' = Response("list", 0, 0, 0, 0)
    /\ UNCHANGED <<accounts, transactions, calls, expected>>

get_account(account_id) ==
    /\ resp' = Response("get", account_id, 0, 0,
                        IF Found(accounts, account_id) THEN 0 ELSE NotFound)
    /\ UNCHANGED <<accounts, transactions, calls, expected>>

update_account(account_id, owner, balance) ==
    IF ~Found(accounts, account_id)
    THEN /\ resp' = Response("update", account_id, 0, balance, NotFound)
         /\ UNCHANGED <<accounts, transactions, calls, expected>>
    ELSE /\ accounts' = [accounts EXCEPT ![account_id].owner = owner,
                                         ![account_id].balance = balance]
         /\ expected' = [expected EXCEPT ![account_id] = balance]
         /\ resp' = Response("update", account_id, 0, balance, 0)
         /\ UNCHANGED <<transactions, calls>>

delete_account(account_id) ==
    IF ~Found(accounts, account_id)
    THEN /\ resp' = Response("delete", account_id, 0, 0, NotFound)
         /\ UNCHANGED <<accounts, transactions, calls, expected>>
    ELSE /\ accounts' = DeleteRow(accounts, account_id)
         /\ expected' = [expected EXCEPT ![account_id] = 0]
         /\ resp' = Response("delete", account_id, 0, 0, 0)
         /\ UNCHANGED <<transactions, calls>>

\* db_account.balance += amount
Credit(balance, amount) == balance + amount

\* db_account.balance -= amount
Debit(balance, amount) == balance - amount

\* Insufficient with the comparison turned around.
Insufficient_flipped(balance, amount) == balance > amount

\* if db_account.balance < amount: raise HTTPException(status_code=400)
Insufficient(balance, amount) == balance < amount

deposit(account_id, amount) ==
    IF ~Found(accounts, account_id)
    THEN /\ resp' = Response("deposit", account_id, 0, amount, NotFound)
         /\ UNCHANGED <<accounts, transactions, calls, expected>>
    ELSE /\ InRange(Credit(accounts[account_id].balance, amount))
         /\ accounts' = [accounts EXCEPT
                ![account_id].balance = Credit(@, amount)]
         /\ expected' = [expected EXCEPT ![account_id] = @ + amount]
         /\ resp' = Response("deposit", account_id, 0, amount, 0)
         /\ UNCHANGED <<transactions, calls>>

withdraw(account_id, amount) ==
    IF ~Found(accounts, account_id)
    THEN /\ resp' = Response("withdraw", account_id, 0, amount, NotFound)
         /\ UNCHANGED <<accounts, transactions, calls, expected>>
    ELSE IF Insufficient(accounts[account_id].balance, amount)
    THEN /\ resp' = Response("withdraw", account_id, 0, amount,
                             InsufficientFunds)
         /\ UNCHANGED <<accounts, transactions, calls, expected>>
    ELSE /\ InRange(Debit(accounts[account_id].balance, amount))
         /\ accounts' = [accounts EXCEPT
                ![account_id].balance = Debit(@, amount)]
         /\ expected' = [expected EXCEPT ![account_id] = @ - amount]
         /\ resp' = Response("withdraw", account_id, 0, amount, 0)
         /\ UNCHANGED <<transactions, calls>>

\* source_account.balance -= amount; target_account.balance += amount.
\* When both ids are equal the two names denote one object of the session,
\* so the second assignment acts on the result of the first.
TransferRows(accts, account_id, target_account_id, amount) ==
    [accts EXCEPT ![account_id].balance = Debit(@, amount),
                  ![target_account_id].balance = Credit(@, amount)]

transfer(account_id, target_account_id, amount) ==
    IF ~Found(accounts, account_id) \/ ~Found(accounts, target_account_id)
    THEN /\ resp' = Response("transfer", account_id, target_account_id,
                             amount, NotFound)
         /\ UNCHANGED <<accounts, transactions, calls, expected>>
    ELSE IF Insufficient(accounts[account_id].balance, amount)
    THEN /\ resp' = Response("transfer", account_id, target_account_id,
                             amount, InsufficientFunds)
         /\ UNCHANGED <<accounts, transactions, calls, expected>>
    ELSE /\ \A i \in {account_id, target_account_id} :
                InRange(TransferRows(accounts, account_id,
                                     target_account_id, amount)[i].balance)
         /\ accounts' = TransferRows(accounts, account_id,
                                     target_account_id, amount)
         /\ expected' = [expected EXCEPT ![account_id] = @ - amount,
                                         ![target_account_id] = @ + amount]
         /\ resp' = Response("transfer", account_id, target_account_id,
                             amount, 0)
         /\ UNCHANGED <<transactions, calls>>

NextLedger ==
    \/ \E o \in Owners, b \in Amounts, d \in BOOLEAN : create_account(o, b, d)
    \/ get_accounts_call
    \/ \E i \in Ids : get_account(i)
    \/ \E i \in Ids, o \in Owners, b \in Amounts : update_account(i, o, b)
    \/ \E i \in Ids : delete_account(i)
    \/ \E i \in Ids, a \in Amounts : deposit(i, a)
    \/ \E i \in Ids, a \in Amounts : withdraw(i, a)
    \/ \E i \in Ids, j \in Ids, a \in Amounts : transfer(i, j, a)

SpecLedger == Init /\ [][NextLedger]_vars

----------------------------------------------------------------------------
(* The transactions table and its handlers.  Rows are never physically     *)
(* deleted, so the id of a row is its position in insertion order.         *)

MaxTransactions == 2

Types == {"deposit", "withdrawal", "transfer", "bonus"}
JournalAmounts == {5}

\* TransactionDB: deleted_at is FALSE for NULL and TRUE for a timestamp.
TransactionDB(account_id, amount, type, deleted_at) ==
    [account_id |-> account_id, amount |-> amount, type |-> type,
     deleted_at |-> deleted_at]

\* db.query(TransactionDB).filter(TransactionDB.id == transaction_id,
\*                                TransactionDB.deleted_at.is_(None)).first()
\* is not None.
FoundTransaction(txns, transaction_id) ==
    /\ transaction_id \in 1..Len(txns)
    /\ ~txns[transaction_id].deleted_at

\* get_transactions with the filter on deleted_at left out.
get_transactions_unfiltered(txns, account_id) ==
    LET Selected(k) == txns[k].account_id = account_id
    IN SelectSeq([k \in 1..Len(txns) |-> k], Selected)

\* get_transactions: the ids of the rows the query returns, in the order of
\* the table.
get_transactions(txns, account_id) ==
    LET Selected(k) == /\ txns[k].account_id = account_id
                       /\ ~txns[k].deleted_at
    IN SelectSeq([k \in 1..Len(txns) |-> k], Selected)

get_transactions_call(account_id) ==
    /\ resp' = Response("get_transactions", account_id, 0, 0, 0)
    /\ UNCHANGED <<accounts, transactions, calls, expected>>

\* create_transaction that also applies the amount to the account.
create_transaction_applying(account_id, amount, type, deleted_at) ==
    /\ Len(transactions) < MaxTransactions
    /\ transactions' = Append(transactions,
          TransactionDB(account_id, amount, type, deleted_at))
    /\ resp' = Response("create_transaction", account_id,
                        Len(transactions) + 1, amount, 0)
    /\ accounts' = IF Found(accounts, account_id)
                   THEN [accounts EXCEPT
                            ![account_id].balance = Credit(@, amount)]
                   ELSE accounts
    /\ UNCHANGED <<calls, expected>>

\* The response carries the id of the new row in its target field.
create_transaction(account_id, amount, type, deleted_at) ==
    /\ Len(transactions) < MaxTransactions
    /\ transactions' = Append(transactions,
          TransactionDB(account_id, amount, type, deleted_at))
    /\ resp' = Response("create_transaction", account_id,
                        Len(transactions) + 1, amount, 0)
    /\ UNCHANGED <<accounts, calls, expected>>

delete_transaction(account_id, transaction_id) ==
    IF ~FoundTransaction(transactions, transaction_id)
    THEN /\ resp' = Response("delete_transaction", account_id,
                             transaction_id, 0, NotFound)
         /\ UNCHANGED <<accounts, transactions, calls, expected>>
    ELSE /\ transactions' =
                [transactions EXCEPT ![transaction_id].deleted_at = TRUE]
         /\ resp' = Response("delete_transaction", account_id,
                             transaction_id, 0, 0)
         /\ UNCHANGED <<accounts, calls, expected>>

\* One active account with id 1; every other id is absent.
InitJournal ==
    /\ \E b \in {0, 5} :
          /\ accounts = [i \in {1} |-> AccountDB("alice", b, FALSE)]
          /\ expected = [i \in Ids |-> IF i = 1 THEN b ELSE 0]
    /\ transactions = <<>>
    /\ calls = [t \in Threads |-> NoCall(0)]
    /\ resp = Response("none", 0, 0, 0, 0)

NextJournal ==
    \/ \E i \in Ids : get_transactions_call(i)
    \/ \E i \in Ids, a \in JournalAmounts, ty \in Types, d \in BOOLEAN :
          create_transaction(i, a, ty, d)
    \/ \E i \in Ids, k \in 1..MaxTransactions : delete_transaction(i, k)

SpecJournal == InitJournal /\ [][NextJournal]_vars

----------------------------------------------------------------------------
(* The same handlers on the thread pool: each database access of a call is *)
(* one step, and the steps of different calls interleave.  The values a    *)
(* call has loaded into its session stay as they were read.                *)

\* The amounts of the calls that run concurrently.
PositiveAmounts == {5, 10}

\* Two stored accounts; the second one may carry a deleted_at timestamp.
InitConcurrent ==
    /\ \E b1 \in {0, 5, 10}, b2 \in {0, 5, 10}, d \in BOOLEAN :
          /\ accounts = [i \in Ids |->
                IF i = 1 THEN AccountDB("alice", b1, FALSE)
                ELSE AccountDB("bob", b2, d)]
          /\ expected = [i \in Ids |-> IF i = 1 THEN b1 ELSE b2]
    /\ transactions = <<>>
    /\ calls = [t \in Threads |-> NoCall(0)]
    /\ resp = Response("none", 0, 0, 0, 0)

Return(t, raised) ==
    /\ resp' = Response(calls[t].op, calls[t].id, calls[t].target,
                        calls[t].amount, raised)
    /\ calls' = [calls EXCEPT ![t] = NoCall(calls[t].n + 1)]

\* deposit, lines 171-177: the query and the None check.
deposit_query(t, account_id, amount) ==
    /\ calls[t].pc = "idle"
    /\ calls[t].n < MaxCalls
    /\ IF ~Found(accounts, account_id)
       THEN /\ resp' = Response("deposit", account_id, 0, amount, NotFound)
            /\ calls' = [calls EXCEPT ![t] = NoCall(calls[t].n + 1)]
       ELSE /\ calls' = [calls EXCEPT ![t] =
                   [pc |-> "dirty", op |-> "deposit", id |-> account_id,
                    target |-> 0, amount |-> amount, found |-> TRUE,
                    src |-> accounts[account_id].balance, tgt |-> 0,
                    n |-> calls[t].n]]
            /\ UNCHANGED resp
    /\ UNCHANGED <<accounts, transactions, expected>>

\* withdraw, lines 188-196: the query, the None check and the funds check.
withdraw_query(t, account_id, amount) ==
    /\ calls[t].pc = "idle"
    /\ calls[t].n < MaxCalls
    /\ IF ~Found(accounts, account_id)
       THEN /\ resp' = Response("withdraw", account_id, 0, amount, NotFound)
            /\ calls' = [calls EXCEPT ![t] = NoCall(calls[t].n + 1)]
       ELSE IF Insufficient(accounts[account_id].balance, amount)
       THEN /\ resp' = Response("withdraw", account_id, 0, amount,
                                InsufficientFunds)
            /\ calls' = [calls EXCEPT ![t] = NoCall(calls[t].n + 1)]
       ELSE /\ calls' = [calls EXCEPT ![t] =
                   [pc |-> "dirty", op |-> "withdraw", id |-> account_id,
                    target |-> 0, amount |-> amount, found |-> TRUE,
                    src |-> accounts[account_id].balance, tgt |-> 0,
                    n |-> calls[t].n]]
            /\ UNCHANGED resp
    /\ UNCHANGED <<accounts, transactions, expected>>

\* transfer, lines 212-216: the query for the source account.
transfer_query_source(t, account_id, target_account_id, amount) ==
    /\ calls[t].pc = "idle"
    /\ calls[t].n < MaxCalls
    /\ calls' = [calls EXCEPT ![t] =
          [pc |-> "source", op |-> "transfer", id |-> account_id,
           target |-> target_account_id, amount |-> amount,
           found |-> Found(accounts, account_id),
           src |-> IF Found(accounts, account_id)
                   THEN accounts[account_id].balance ELSE 0,
           tgt |-> 0, n |-> calls[t].n]]
    /\ UNCHANGED <<accounts, transactions, resp, expected>>

\* transfer, lines 217-225: the query for the target account and the two
\* checks.  A query for the id already loaded returns the loaded object.
transfer_query_target(t) ==
    /\ calls[t].pc = "source"
    /\ IF ~calls[t].found \/ ~Found(accounts, calls[t].target)
       THEN Return(t, NotFound)
       ELSE IF Insufficient(calls[t].src, calls[t].amount)
       THEN Return(t, InsufficientFunds)
       ELSE /\ calls' = [calls EXCEPT ![t].pc = "dirty",
                   ![t].tgt = IF calls[t].target = calls[t].id
                              THEN calls[t].src
                              ELSE accounts[calls[t].target].balance]
            /\ UNCHANGED resp
    /\ UNCHANGED <<accounts, transactions, expected>>

\* The flush of one loaded row: UPDATE accounts SET balance = new WHERE
\* id = account_id, issued only when the attribute differs from the value
\* that was loaded.
UpdateRow(accts, account_id, loaded, new) ==
    IF new = loaded THEN accts
    ELSE [accts EXCEPT ![account_id].balance = new]

\* The assignments of the handler applied to the loaded objects, then
\* db.commit(): all UPDATEs of the call commit in one transaction.
Flush(accts, c) ==
    IF c.op = "deposit"
    THEN UpdateRow(accts, c.id, c.src, Credit(c.src, c.amount))
    ELSE IF c.op = "withdraw"
    THEN UpdateRow(accts, c.id, c.src, Debit(c.src, c.amount))
    ELSE IF c.id = c.target
    THEN UpdateRow(accts, c.id, c.src,
                   Credit(Debit(c.src, c.amount), c.amount))
    ELSE UpdateRow(UpdateRow(accts, c.id, c.src, Debit(c.src, c.amount)),
                   c.target, c.tgt, Credit(c.tgt, c.amount))

commit(t) ==
    /\ calls[t].pc = "dirty"
    /\ accounts' = Flush(accounts, calls[t])
    /\ calls' = [calls EXCEPT ![t].pc = "committed"]
    /\ UNCHANGED <<transactions, resp, expected>>

\* db.refresh(...) and the return of the 200 response.
refresh(t) ==
    /\ calls[t].pc = "committed"
    /\ Return(t, 0)
    /\ expected' =
          IF calls[t].op = "deposit"
          THEN [expected EXCEPT ![calls[t].id] = @ + calls[t].amount]
          ELSE IF calls[t].op = "withdraw"
          THEN [expected EXCEPT ![calls[t].id] = @ - calls[t].amount]
          ELSE [expected EXCEPT ![calls[t].id] = @ - calls[t].amount,
                                ![calls[t].target] = @ + calls[t].amount]
    /\ UNCHANGED <<accounts, transactions>>

NextDepositWithdraw ==
    \/ \E t \in Threads, i \in Ids, a \in PositiveAmounts :
          deposit_query(t, i, a)
    \/ \E t \in Threads, i \in Ids, a \in PositiveAmounts :
          withdraw_query(t, i, a)
    \/ \E t \in Threads : commit(t)
    \/ \E t \in Threads : refresh(t)

SpecDepositWithdraw == InitConcurrent /\ [][NextDepositWithdraw]_vars

NextTransfer ==
    \/ \E t \in Threads, i \in Ids, j \in Ids, a \in PositiveAmounts :
          transfer_query_source(t, i, j, a)
    \/ \E t \in Threads : transfer_query_target(t)
    \/ \E t \in Threads : commit(t)
    \/ \E t \in Threads : refresh(t)

SpecTransfer == InitConcurrent /\ [][NextTransfer]_vars

AllIdle == \A t \in Threads : calls[t].pc = "idle"

----------------------------------------------------------------------------
(* Properties *)

\* The account with this id is absent or carries a deleted_at timestamp.
Missing(id) == id \notin DOMAIN accounts \/ accounts[id].deleted_at

Active(id) == id \in DOMAIN accounts /\ ~accounts[id].deleted_at

\* C1: in every state reached by create, update, deposit, withdraw, transfer
\* and delete calls, every account whose deleted_at is null has a balance
\* that is not negative.
C1_ActiveBalanceNonNegative ==
    \A i \in DOMAIN accounts :
        ~accounts[i].deleted_at => accounts[i].balance >= 0

\* C2: when the deposit and withdraw calls that ran concurrently have all
\* returned, the balance of every account is its initial balance plus the
\* amounts of the deposits that returned success minus the amounts of the
\* withdraws that returned success, which is the result of applying the
\* calls one after the other in any order that gives the same responses.
C2_Linearizable ==
    AllIdle => \A i \in DOMAIN accounts : accounts[i].balance = expected[i]

\* C3: the commit of a transfer between two different accounts lowers the
\* balance of the source by the amount and raises the balance of the target
\* by the amount in that one step, and a transfer that returns an error
\* changes no balance.
C3_TransferOneStep ==
    [][\A t \in Threads :
          /\ (/\ calls[t].pc = "dirty"
              /\ calls'[t].pc = "committed"
              /\ calls[t].id # calls[t].target)
             => /\ accounts'[calls[t].id].balance =
                      accounts[calls[t].id].balance - calls[t].amount
                /\ accounts'[calls[t].target].balance =
                      accounts[calls[t].target].balance + calls[t].amount
          /\ (/\ calls[t].pc # "idle"
              /\ calls'[t].pc = "idle"
              /\ resp'.raised # 0)
             => accounts' = accounts]_vars

\* C4: while transfers are the only calls that run, one after the other or
\* interleaved, no step changes the sum of the balances of all accounts.
C4_Conservation ==
    [][TotalBalance(accounts') = TotalBalance(accounts)]_vars

C6_SequentialBalance ==
    [][(/\ resp'.op \in {"deposit", "withdraw"}
        /\ Active(resp'.id)
        /\ accounts[resp'.id].balance >= 0)
       => /\ resp'.id \in DOMAIN accounts'
          /\ accounts'[resp'.id].balance =
                accounts[resp'.id].balance
                + (IF resp'.raised # 0 THEN 0
                   ELSE IF resp'.op = "deposit" THEN resp'.amount
                   ELSE 0 - resp'.amount)
          /\ accounts'[resp'.id].balance >= 0]_vars

\* C7: the call that follows a successful delete(id) leaves id not found by
\* get and absent from list, whatever that call is.
C7_DeletedStaysInvisible ==
    [][(resp.op = "delete" /\ resp.raised = 0)
       => /\ ~Found(accounts', resp.id)
          /\ resp.id \notin get_accounts(accounts')]_vars

C9_NonPositiveAmountRejected ==
    [][(/\ resp'.op \in {"deposit", "withdraw"}
        /\ Active(resp'.id)
        /\ accounts[resp'.id].balance >= 0
        /\ resp'.amount <= 0)
       => (resp'.raised = ValidationError /\ accounts' = accounts)]_vars

\* C10: transfer between active accounts (their balances not negative) with
\* an amount that is not positive or with the source as its target raises
\* ValidationError and leaves the accounts table as it was, so a
\* self-transfer never returns success.
C10_InvalidTransferRejected ==
    [][(/\ resp'.op = "transfer"
        /\ Active(resp'.id)
        /\ Active(resp'.target)
        /\ accounts[resp'.id].balance >= 0
        /\ accounts[resp'.target].balance >= 0
        /\ (resp'.amount <= 0 \/ resp'.id = resp'.target))
       => (resp'.raised = ValidationError /\ accounts' = accounts)]_vars

\* The accounts whose rows a transfer in progress has loaded and not yet
\* committed.
Held(t) ==
    IF calls[t].pc = "source" /\ calls[t].found THEN {calls[t].id}
    ELSE IF calls[t].pc = "dirty" THEN {calls[t].id, calls[t].target}
    ELSE {}

\* C11: a transfer between two different accounts has exclusive access to
\* the accounts it works on, so no two such transfers in progress hold the
\* same account at the same time.
C11_ExclusiveAccess ==
    \A t1 \in Threads, t2 \in Threads :
        (/\ t1 # t2
         /\ calls[t1].id # calls[t1].target
         /\ calls[t2].id # calls[t2].target)
        => Held(t1) \cap Held(t2) = {}

\* C12: a successful deposit or withdraw adds one active transaction to the
\* entries listed for its account, carrying the amount and the type of the
\* operation.
C12_BalanceChangeRecorded ==
    [][(resp'.op \in {"deposit", "withdraw"} /\ resp'.raised = 0)
       => LET before == get_transactions(transactions, resp'.id)
              after == get_transactions(transactions', resp'.id)
          IN /\ Len(after) = Len(before) + 1
             /\ transactions'[after[Len(after)]].amount = resp'.amount
             /\ transactions'[after[Len(after)]].type =
                   (IF resp'.op = "deposit" THEN "deposit"
                    ELSE "withdrawal")]_vars

\* C13: a call that raises the not-found error is answered with status 404
\* and a call that raises the insufficient-funds error with status 400,
\* never with status 500.
C13_ErrorKindsReported ==
    resp.raised \in {NotFound, InsufficientFunds}
        => resp.status = resp.raised

\* The result of get_transactions for every account id: exactly the ids of
\* the active rows with that account_id, in ascending order of insertion.
ListForExact ==
    \A a \in Ids :
        LET r == get_transactions(transactions, a)
        IN /\ \A j \in 1..Len(r) :
                 /\ r[j] \in 1..Len(transactions)
                 /\ transactions[r[j]].account_id = a
                 /\ ~transactions[r[j]].deleted_at
           /\ \A k \in 1..Len(transactions) :
                 (transactions[k].account_id = a
                    /\ ~transactions[k].deleted_at)
                 => \E j \in 1..Len(r) : r[j] = k
           /\ \A i \in 1..Len(r), j \in 1..Len(r) : i < j => r[i] < r[j]

C15_AccountIdsUnique ==
    [][/\ (resp'.op = "delete" /\ resp'.raised = 0)
          => /\ resp'.id \in DOMAIN accounts'
             /\ accounts'[resp'.id].deleted_at
       /\ (resp.op = "delete" /\ resp.raised = 0 /\ resp'.op = "create")
          => resp'.id # resp.id]_vars

\* C16: get_transactions, create_transaction and delete_transaction leave
\* the accounts table as it was, and their outcome is fixed by the
\* transactions table and the arguments alone: listing and recording always
\* succeed, and deleting raises NotFound exactly when no active transaction
\* has the given id.
C16_JournalLeavesAccounts ==
    [][(resp'.op \in {"get_transactions", "create_transaction",
                      "delete_transaction"})
       => /\ accounts' = accounts
          /\ resp'.op # "delete_transaction" => resp'.raised = 0
          /\ resp'.op = "delete_transaction"
             => (resp'.raised = NotFound
                 <=> ~(/\ resp'.target \in 1..Len(transactions)
                       /\ ~transactions[resp'.target].deleted_at))]_vars

\* C16 witness: a transaction has just been recorded for the active account
\* 1, which holds a balance.
C16_Witness ==
    /\ resp.op = "create_transaction"
    /\ resp.id = 1
    /\ Active(1)
    /\ accounts[1].balance = 5
    /\ Len(transactions) > 0
    /\ transactions[Len(transactions)].account_id = 1

\* C17: create_account with a negative balance raises ValidationError and
\* adds no account.
C17_NegativeInitialBalanceRejected ==
    [][(resp'.op = "create" /\ resp'.amount < 0)
       => (resp'.raised = ValidationError /\ accounts' = accounts)]_vars

\* C18: the type of every stored transaction is deposit, withdrawal or
\* transfer.
C18_TypeIsEnumerated ==
    \A k \in 1..Len(transactions) :
        transactions[k].type \in {"deposit", "withdrawal", "transfer"}

\* C19: the account a successful create_account returns is active: get
\* finds it and list includes it.
C19_CreatedAccountActive ==
    [][(resp'.op = "create" /\ resp'.raised = 0)
       => /\ Found(accounts', resp'.id)
          /\ resp'.id \in get_accounts(accounts')]_vars

\* C20: delete_transaction(account_id, transaction_id) for an active
\* transaction that belongs to another account raises NotFound and leaves
\* the transactions table as it was.
C20_DeleteScopedToAccount ==
    [][(/\ resp'.op = "delete_transaction"
        /\ resp'.target \in 1..Len(transactions)
        /\ ~transactions[resp'.target].deleted_at
        /\ transactions[resp'.target].account_id # resp'.id)
       => (resp'.raised = NotFound /\ transactions' = transactions)]_vars

====
